---------------------------- MODULE Spec2Model ----------------------------
(***************************************************************************)
(* A model of the assisipy communication layer: one node (a Lure, the     *)
(* CASU interface of lure.py, or a Fish, the simulated fish of fish.py),    *)
(* its Receiver thread (__update_readings), the caller thread running the   *)
(* constructor and then the public API, the lock, the stored readings, the  *)
(* peer-message queue, the command bus and the log file.                    *)
(*                                                                         *)
(* Numbers: readings and vibration setpoints are integers; colour          *)
(* channels are in tenths (10 stands for 1.0).  A protobuf message is the  *)
(* sequence of <<field, value>> pairs of its wire form (a nested message   *)
(* is one pair whose value is the tuple of its fields); decoding merges    *)
(* the pairs one by one into the stored message.                           *)
(***************************************************************************)
EXTENDS Integers, Sequences, FiniteSets, TLC

\* ------------------------------------------------------------------ bounds
MaxFrames == 2      \* primary frames the data source delivers in one run
MaxCalls == 2       \* public API calls the client makes after construction
MaxPeer == 2        \* peer messages that arrive on the message subscription

\* ------------------------------------------------------- program constants
ARRAY == 10000
IR_F == 0
IR_FR == 1
OBJECT_SIDE_RIGHT == 0
LEFT_EYE == 6
RIGHT_EYE == 7
NoData == -1
FishHackRange == 10
EpsInverse == 1000000   \* r < 0.000001 is r * EpsInverse < 1
ColourOne == 10         \* the upper colour bound 1, in tenths
MaxIntens == 100
MaxFreq == 500
AccSensors == 4

\* ------------------------------------------------------------------- names
MyName == "casu-001"
LongerName == "casu-0011"     \* passes the prefix subscription of MyName
NeighborNorth == "casu-002"
NeighborSouth == "casu-003"
Stranger == "casu-009"

\* -------------------------------------------------------- protobuf messages
EmptyMsg == << >>

\* The repeated field f of message m, in order.
RECURSIVE Rep(_, _)
Rep(m, f) ==
    IF m = << >> THEN << >>
    ELSE IF Head(m)[1] = f THEN <<Head(m)[2]>> \o Rep(Tail(m), f)
         ELSE Rep(Tail(m), f)

\* The optional scalar field f of message m (last one wins), default 0.
RECURSIVE Scalar(_, _)
Scalar(m, f) ==
    IF m = << >> THEN 0
    ELSE IF m[Len(m)][1] = f THEN m[Len(m)][2]
         ELSE Scalar(SubSeq(m, 1, Len(m) - 1), f)

\* ParseFromString after k wire pairs: the message is cleared first, then the
\* pairs are merged in wire order.
ParsePrefix(data, k) == SubSeq(data, 1, k)

\* ----------------------------------------------------------------- payloads
RangesA == << <<"range", 0>>, <<"range", 3>>, <<"raw_value", 7>>, <<"raw_value", 8>> >>
RangesB == << <<"range", 5>>, <<"range", 2>>, <<"raw_value", 9>>, <<"raw_value", 6>> >>
AccNone == << >>
AccTwo == << <<"reading", <<40, 1>>>>, <<"reading", <<41, 2>>>> >>
AccFour == << <<"reading", <<40, 1>>>>, <<"reading", <<41, 2>>>>,
              <<"reading", <<42, 3>>>>, <<"reading", <<43, 4>>>> >>
ObjectsA == << <<"range", 0>>, <<"range", 4>>, <<"type", 1>>, <<"type", 2>>, <<"max_range", 5>> >>
ObjectsB == << <<"range", 6>>, <<"range", 0>>, <<"type", 2>>, <<"type", 1>>, <<"max_range", 10>> >>
VelA == << <<"vel_left", 1>>, <<"vel_right", 2>> >>
ColourA == << <<"color", <<10, 0, 5>>>> >>
PoseA == << <<"pose", <<1, 2, 3>>>> >>
EyeA == << <<"image", <<1, 2, 3>>>>, <<"zbuffer", 4>> >>

Frame(n, d, c, p) == [name |-> n, dev |-> d, cmd |-> c, data |-> p]
NoFrame == Frame("", "", "", << >>)

\* What the data source may publish to a Lure subscribed with prefix MyName.
LureFrames ==
    { Frame(MyName, "IR", "Ranges", p) : p \in {RangesA, RangesB} }
    \cup { Frame(MyName, "Acc", "Measurements", p) : p \in {AccNone, AccTwo, AccFour} }
    \cup { Frame(MyName, "IR", "Bogus", RangesB),
           Frame(MyName, "Acc", "Bogus", AccFour),
           Frame(MyName, "Bogus", "Ranges", RangesB),
           Frame(LongerName, "IR", "Ranges", RangesB) }

\* What the simulator may publish to a Fish subscribed with prefix MyName.
FishFrames ==
    { Frame(MyName, "Object", "Ranges", p) : p \in {ObjectsA, ObjectsB} }
    \cup { Frame(MyName, "Base", "Enc", VelA),
           Frame(MyName, "Base", "GroundTruth", PoseA),
           Frame(MyName, "Base", "VelRef", VelA),
           Frame(MyName, "Light", "Readings", ColourA),
           Frame(MyName, "Color", "ColorVal", ColourA),
           Frame(MyName, "Eye", "Left", EyeA),
           Frame(MyName, "Eye", "Right", EyeA),
           Frame(MyName, "Object", "Bogus", ObjectsB),
           Frame(MyName, "Base", "Bogus", VelA),
           Frame(MyName, "Bogus", "Ranges", ObjectsB),
           Frame(LongerName, "Object", "Ranges", ObjectsB) }

LureStreams == {"ir", "acc"}
FishStreams == {"object", "enc", "pose", "velref", "light", "color", "left_eye", "right_eye"}

\* (mutant) both recognized pairs of the Lure are written to the ir message.
LureStreamAlwaysIr(dev, cmd) ==
    IF (dev = "IR" /\ cmd = "Ranges") \/ (dev = "Acc" /\ cmd = "Measurements") THEN "ir"
    ELSE ""

\* The stream a (device, command) pair is dispatched to; "" marks a pair the
\* dispatch chain does not know.
LureStreamOf(dev, cmd) ==
    IF dev = "IR" /\ cmd = "Ranges" THEN "ir"
    ELSE IF dev = "Acc" /\ cmd = "Measurements" THEN "acc"
    ELSE ""

FishStreamOf(dev, cmd) ==
    IF dev = "Object" /\ cmd = "Ranges" THEN "object"
    ELSE IF dev = "Base" /\ cmd = "Enc" THEN "enc"
    ELSE IF dev = "Base" /\ cmd = "GroundTruth" THEN "pose"
    ELSE IF dev = "Base" /\ cmd = "VelRef" THEN "velref"
    ELSE IF dev = "Light" /\ cmd = "Readings" THEN "light"
    ELSE IF dev = "Color" /\ cmd = "ColorVal" THEN "color"
    ELSE IF dev = "Eye" /\ cmd = "Left" THEN "left_eye"
    ELSE IF dev = "Eye" /\ cmd = "Right" THEN "right_eye"
    ELSE ""

\* What the Receiver prints for an unrecognized pair ("" when it prints nothing).
LureReportOf(dev, cmd) ==
    IF dev = "IR" THEN (IF cmd = "Ranges" THEN "" ELSE "unknown command")
    ELSE IF dev = "Acc" THEN ""
    ELSE "unknown device"

FishReportOf(dev, cmd) ==
    IF dev \in {"Object", "Base", "Light", "Color", "Eye"}
    THEN (IF FishStreamOf(dev, cmd) = "" THEN "unknown command" ELSE "")
    ELSE ""

\* ------------------------------------------------------------------- state
VARIABLES
    kind,        \* "Lure" or "Fish"
    built,       \* Lure: "name" (defaults, no neighbors) or "rtc" (neighbor table)
    log,         \* the constructor's log argument
    logfile,     \* "none", "open" or "closed"
    logrows,     \* number of rows written to the log file
    stop,        \* self.__stop (Lure)
    connected,   \* self.__connected
    readings,    \* stream -> stored message
    lock,        \* holder of self.__lock: "free", "rx" or "caller"
    rx,          \* the Receiver thread: position, current frame, decode progress,
                 \* last line it printed about an unknown pair
    delivered,   \* primary frames received so far
    msg_queue,   \* self.__msg_queue
    peer_recvd,  \* peer messages received so far
    caller,      \* the client thread: position, current call and its outcome
    calls,       \* API calls started so far
    published,   \* frames sent by the current (or last) call, in order
    neighbors,   \* self.__neighbors: direction -> physical name (built = "rtc")
    phys_logi_map, \* self.__phys_logi_map: physical name -> direction
    reader       \* a second client thread, which calls read_message once

vars == <<kind, built, log, logfile, logrows, stop, connected, readings, lock,
          rx, delivered, msg_queue, peer_recvd, caller, calls, published,
          neighbors, phys_logi_map, reader>>

\* What the constructor fixes.
config == <<kind, built, log, neighbors, phys_logi_map>>


Streams(k) == IF k = "Lure" THEN LureStreams ELSE FishStreams
Frames(k) == IF k = "Lure" THEN LureFrames ELSE FishFrames
StreamOf(k, dev, cmd) == IF k = "Lure" THEN LureStreamOf(dev, cmd) ELSE FishStreamOf(dev, cmd)
ReportOf(k, dev, cmd) == IF k = "Lure" THEN LureReportOf(dev, cmd) ELSE FishReportOf(dev, cmd)

\* A peer frame [name, 'Message', sender, data] on the message subscription.
PeerFrame(n, s, d) == [name |-> n, sender |-> s, data |-> d]
NoPeer == PeerFrame("", "", "")
PeerFrames == { PeerFrame(MyName, NeighborNorth, "hi"),
                PeerFrame(MyName, Stranger, "yo"),
                PeerFrame(LongerName, NeighborSouth, "hi") }

\* The neighbor table of the RTC file: logical direction -> physical name.
NeighborTable == [d \in {"north", "south"} |->
                    IF d = "north" THEN NeighborNorth ELSE NeighborSouth]
Directions == {"north", "south", "east"}

RxIdle == [pc |-> "loop", frame |-> NoFrame, pos |-> 0, report |-> "", msg |-> NoPeer]
NoTable == [d \in {} |-> ""]

\* (mutant) the map is keyed by direction instead of by physical name.
ReadCommLinksByDirection(table) == [d \in DOMAIN table |-> d]

\* __read_comm_links: the physical -> logical map of a neighbor table.
ReadCommLinks(table) ==
    [n \in {table[d] : d \in DOMAIN table} |-> CHOOSE d \in DOMAIN table : table[d] = n]

\* The outcome of a call: what it returned, or the exception it raised, and
\* the lines it printed (out).
NoMsg == [sender |-> "", data |-> "", label |-> ""]
NoResult == [kind |-> "none", val |-> 0, arr |-> << >>, oval |-> 0, oarr |-> << >>,
             exc |-> "", msg |-> NoMsg, out |-> << >>]
Returned(k) == [NoResult EXCEPT !.kind = k]
ScalarResult(v) == [NoResult EXCEPT !.kind = "scalar", !.val = v]
ArrayResult(a) == [NoResult EXCEPT !.kind = "array", !.arr = a]
Raised(e) == [NoResult EXCEPT !.kind = "raised", !.exc = e]
CallerAt(p) == [pc |-> p, op |-> "", arg |-> << >>, res |-> NoResult]

\* The state when the constructor has started the Receiver thread and is about
\* to wait for the connection.
Init ==
    /\ kind \in {"Lure", "Fish"}
    /\ built \in (IF kind = "Lure" THEN {"name", "rtc"} ELSE {"name"})
    /\ log \in (IF kind = "Lure" THEN BOOLEAN ELSE {FALSE})
    /\ logfile = (IF log THEN "open" ELSE "none")
    /\ logrows = 0
    /\ stop = FALSE
    /\ connected = FALSE
    /\ readings = [s \in Streams(kind) |-> EmptyMsg]
    /\ lock = "free"
    /\ rx = RxIdle
    /\ delivered = 0
    /\ msg_queue = << >>
    /\ peer_recvd = 0
    /\ caller = CallerAt("ctor_wait")
    /\ calls = 0
    /\ published = << >>
    /\ neighbors = (IF built = "rtc" THEN NeighborTable ELSE NoTable)
    /\ phys_logi_map = (IF built = "rtc" THEN ReadCommLinks(neighbors) ELSE NoTable)
    /\ reader = CallerAt("idle")

\* self.__msg_sub is a socket only when the RTC file gave a message address
\* and neighbors.
HasMsgSub == kind = "Lure" /\ built = "rtc"

\* (mutant) a row is written whether logging is enabled or not.
RowsWrittenAlways(n) == n

\* self.__write_to_log(row): n rows are written when logging is on.
RowsWritten(n) == IF log THEN n ELSE 0

\* ---------------------------------------------------------------- Receiver
\* (mutant) the loop of the Lure is `while True:` as well.
RxLoopNeverExits == FALSE

\* `while not self.__stop:` (Lure) / `while True:` (Fish)
RxLoopExits == kind = "Lure" /\ stop

RxLoop ==
    /\ rx.pc = "loop"
    /\ rx' = [rx EXCEPT !.pc = IF RxLoopExits THEN "done" ELSE "recv"]
    /\ UNCHANGED <<config, reader, logfile, logrows, stop, connected, readings,
                   lock, delivered, msg_queue, peer_recvd, caller, calls, published>>

\* The blocking recv_multipart() returns the next frame of the subscription.
RxRecv(F) ==
    /\ rx.pc = "recv"
    /\ delivered < MaxFrames
    /\ \E f \in F :
          rx' = [rx EXCEPT !.pc = "connect", !.frame = f]
    /\ delivered' = delivered + 1
    /\ UNCHANGED <<config, reader, logfile, logrows, stop, connected, readings,
                   lock, msg_queue, peer_recvd, caller, calls, published>>

\* (mutant) the flag follows the last frame: true only for a recognized pair.
ConnectedFollowsFrame(f) == StreamOf(kind, f.dev, f.cmd) # ""

\* `self.__connected = True`
ConnectedAfterFrame(f) == TRUE

RxConnect ==
    /\ rx.pc = "connect"
    /\ connected' = ConnectedAfterFrame(rx.frame)
    /\ rx' = [rx EXCEPT !.pc = "dispatch"]
    /\ UNCHANGED <<config, reader, logfile, logrows, stop, readings,
                   lock, delivered, msg_queue, peer_recvd, caller, calls, published>>

\* (mutant) an unrecognized pair raises and ends the thread.
UnknownRaises == "crashed"

\* Where the Receiver continues after the dispatch chain.
AfterDispatch == IF kind = "Lure" THEN "poll" ELSE "loop"

\* The if/elif chain on (dev, cmd): a known pair goes on to take the lock, an
\* unknown one is printed (or silently skipped).
RxDispatch ==
    /\ rx.pc = "dispatch"
    /\ LET s == StreamOf(kind, rx.frame.dev, rx.frame.cmd) IN
       rx' = IF s # ""
             THEN [rx EXCEPT !.pc = "acquire"]
             ELSE [rx EXCEPT !.pc = AfterDispatch, !.frame = NoFrame,
                             !.report = ReportOf(kind, rx.frame.dev, rx.frame.cmd)]
    /\ UNCHANGED <<config, reader, logfile, logrows, stop, connected, readings,
                   lock, delivered, msg_queue, peer_recvd, caller, calls, published>>

\* (mutant) the Receiver writes without taking the lock.
RxIgnoresLock == TRUE

\* `with self.__lock:` in the Receiver: enabled when the lock is free.
RxMayLock == lock = "free"

\* Entering `with self.__lock:`; ParseFromString first clears the message.
RxAcquire ==
    /\ rx.pc = "acquire"
    /\ RxMayLock
    /\ lock' = "rx"
    /\ LET s == StreamOf(kind, rx.frame.dev, rx.frame.cmd) IN
       readings' = [readings EXCEPT ![s] = EmptyMsg]
    /\ rx' = [rx EXCEPT !.pc = "parse", !.pos = 0]
    /\ UNCHANGED <<config, reader, logfile, logrows, stop, connected,
                   delivered, msg_queue, peer_recvd, caller, calls, published>>

\* ParseFromString merges the next wire pair into the stored message.
RxParse ==
    /\ rx.pc = "parse"
    /\ rx.pos < Len(rx.frame.data)
    /\ LET s == StreamOf(kind, rx.frame.dev, rx.frame.cmd) IN
       readings' = [readings EXCEPT ![s] = ParsePrefix(rx.frame.data, rx.pos + 1)]
    /\ rx' = [rx EXCEPT !.pos = rx.pos + 1]
    /\ UNCHANGED <<config, reader, logfile, logrows, stop, connected, lock,
                   delivered, msg_queue, peer_recvd, caller, calls, published>>

\* Leaving `with self.__lock:` once the payload is decoded.
RxRelease ==
    /\ rx.pc = "parse"
    /\ rx.pos = Len(rx.frame.data)
    /\ lock' = "free"
    /\ rx' = IF kind = "Lure" THEN [rx EXCEPT !.pc = "logging", !.pos = 0]
             ELSE [rx EXCEPT !.pc = "loop", !.pos = 0, !.frame = NoFrame]
    /\ UNCHANGED <<config, reader, logfile, logrows, stop, connected, readings,
                   delivered, msg_queue, peer_recvd, caller, calls, published>>

\* Number of vibration readings in the stored Acc message.
AccCount == Len(Rep(readings["acc"], "reading"))

\* Lure, after the lock: the ir rows, or the acc rows built from reading[0..3];
\* reading[i] raises IndexError when fewer than four readings are stored.
AccRaises == rx.frame.dev = "Acc" /\ AccCount > 0 /\ AccCount < AccSensors

RxLogging ==
    /\ rx.pc = "logging"
    /\ IF AccRaises
       THEN /\ rx' = [rx EXCEPT !.pc = "crashed", !.frame = NoFrame]
            /\ UNCHANGED logrows
       ELSE /\ rx' = [rx EXCEPT !.pc = "poll", !.frame = NoFrame]
            /\ logrows' = logrows +
                 (IF rx.frame.dev = "Acc" /\ AccCount = 0 THEN 0 ELSE RowsWritten(2))
    /\ UNCHANGED <<config, reader, logfile, stop, connected, readings, lock,
                   delivered, msg_queue, peer_recvd, caller, calls, published>>

\* `if self.__msg_sub:` then one recv_multipart(zmq.NOBLOCK): a pending peer
\* frame, or zmq.ZMQError when none is pending.
RxPoll(P) ==
    /\ rx.pc = "poll"
    /\ \/ /\ HasMsgSub
          /\ peer_recvd < MaxPeer
          /\ \E m \in P : rx' = [rx EXCEPT !.pc = "qlock", !.msg = m]
          /\ peer_recvd' = peer_recvd + 1
       \/ /\ rx' = [rx EXCEPT !.pc = "loop"]
          /\ UNCHANGED peer_recvd
    /\ UNCHANGED <<config, reader, logfile, logrows, stop, connected, readings,
                   lock, delivered, msg_queue, caller, calls, published>>

\* `with self.__lock:` around the queue append.
RxQueueLock ==
    /\ rx.pc = "qlock"
    /\ RxMayLock
    /\ lock' = "rx"
    /\ rx' = [rx EXCEPT !.pc = "qappend"]
    /\ UNCHANGED <<config, reader, logfile, logrows, stop, connected, readings,
                   delivered, msg_queue, peer_recvd, caller, calls, published>>

\* (mutant) after an append the subscription is polled again.
AfterAppendPollsAgain == "poll"

\* Where the Receiver continues after the append: the try block ends and
\* with it the loop body.
AfterAppend == "loop"

\* `self.__msg_queue.append({'sender':sender, 'data':data})`, then the lock is released.
RxQueueAppend ==
    /\ rx.pc = "qappend"
    /\ msg_queue' = Append(msg_queue, [sender |-> rx.msg.sender, data |-> rx.msg.data])
    /\ lock' = "free"
    /\ rx' = [rx EXCEPT !.pc = AfterAppend, !.msg = NoPeer]
    /\ UNCHANGED <<config, reader, logfile, logrows, stop, connected, readings,
                   delivered, peer_recvd, caller, calls, published>>

\* The steps of the Receiver thread that take no input.
Receiver ==
    \/ RxLoop \/ RxConnect \/ RxDispatch \/ RxAcquire \/ RxParse
    \/ RxRelease \/ RxLogging \/ RxQueueLock \/ RxQueueAppend


\* ------------------------------------------------------------------ caller
\* seq[i] of Python: 0-based, negative indices count from the end, otherwise
\* IndexError (reported as the result "raised").
InRange(seq, i) == i \in -Len(seq) .. (Len(seq) - 1)
PyIndex(seq, i) == IF i >= 0 THEN seq[i + 1] ELSE seq[Len(seq) + i + 1]

\* `r < 0.000001` on an integer reading.
BelowEps(r) == r * EpsInverse < 1

\* Lure.get_range(id), on the stored ir message m.
LureGetRange(m, id) ==
    LET r == Rep(m, "range") IN
    IF r # << >>
    THEN (IF InRange(r, id) THEN ScalarResult(PyIndex(r, id)) ELSE Raised("IndexError"))
    ELSE ScalarResult(NoData)

\* Lure.get_ir_raw_value(id), on the stored ir message m.
LureGetIrRawValue(m, id) ==
    LET raw == Rep(m, "raw_value") IN
    IF raw # << >>
    THEN (IF id = ARRAY THEN ArrayResult(raw)
          ELSE IF InRange(raw, id) THEN ScalarResult(PyIndex(raw, id))
          ELSE Raised("IndexError"))
    ELSE ScalarResult(NoData)

\* The value Fish.get_range substitutes for a scalar reading below the threshold.
FishCorrected(m) == FishHackRange

\* Fish.get_range(id), on the stored object message m.  The correction after
\* the lock compares a list with a float when id is ARRAY, which is false in
\* Python 2, so a list is returned as it is.
FishGetRange(m, id) ==
    LET r == Rep(m, "range") IN
    IF r # << >> /\ id = ARRAY THEN ArrayResult(r)
    ELSE IF r # << >> /\ ~InRange(r, id - OBJECT_SIDE_RIGHT) THEN Raised("IndexError")
    ELSE LET v == IF r # << >> THEN PyIndex(r, id - OBJECT_SIDE_RIGHT) ELSE NoData IN
         ScalarResult(IF BelowEps(v) THEN FishCorrected(m) ELSE v)

\* Fish.get_object_with_range(id), on the stored object message m.
FishGetObjectWithRange(m, id) ==
    LET r == Rep(m, "range")
        t == Rep(m, "type")
        fix(v) == IF BelowEps(v) THEN Scalar(m, "max_range") ELSE v
    IN
    IF r = << >> THEN [NoResult EXCEPT !.kind = "nodata", !.val = NoData]
    ELSE IF id = ARRAY
         THEN [NoResult EXCEPT !.kind = "array", !.arr = [i \in 1..Len(r) |-> fix(r[i])],
                               !.oarr = t]
    ELSE IF ~InRange(r, id - OBJECT_SIDE_RIGHT) \/ ~InRange(t, id - OBJECT_SIDE_RIGHT)
         THEN Raised("IndexError")
    ELSE [NoResult EXCEPT !.kind = "scalar", !.val = fix(PyIndex(r, id - OBJECT_SIDE_RIGHT)),
                          !.oval = PyIndex(t, id - OBJECT_SIDE_RIGHT)]

\* The getters that read a stored message under the lock, and the stream each reads.
LureGetters == {"get_range", "get_ir_raw_value"}
FishGetters == {"get_range", "get_object_with_range"}
Getters(k) == IF k = "Lure" THEN LureGetters ELSE FishGetters
GetterStream(k) == IF k = "Lure" THEN "ir" ELSE "object"

GetterResult(k, op, m, id) ==
    IF k = "Lure"
    THEN (IF op = "get_range" THEN LureGetRange(m, id) ELSE LureGetIrRawValue(m, id))
    ELSE (IF op = "get_range" THEN FishGetRange(m, id) ELSE FishGetObjectWithRange(m, id))

SensorIds == {IR_F, IR_FR, ARRAY}

\* (mutant) the constructor returns without waiting for the first frame.
CtorNeverWaits == TRUE

\* (mutant) the wait never ends.
CtorNeverReturns == FALSE

\* `while not self.__connected: time.sleep(1)`: the wait ends once the flag is set.
CtorMayReturn == connected

\* The constructor leaves its wait; a Fish then sleeps 0.5 s more.
CtorWait ==
    /\ caller.pc = "ctor_wait"
    /\ CtorMayReturn
    /\ caller' = CallerAt(IF kind = "Fish" THEN "settle" ELSE "idle")
    /\ UNCHANGED <<config, reader, logfile, logrows, stop, connected, readings, lock, rx,
                   delivered, msg_queue, peer_recvd, calls, published>>

\* `time.sleep(0.5)` of Fish.__init__ is over: the constructor returns.
CtorSettle ==
    /\ caller.pc = "settle"
    /\ caller' = CallerAt("idle")
    /\ UNCHANGED <<config, reader, logfile, logrows, stop, connected, readings, lock, rx,
                   delivered, msg_queue, peer_recvd, calls, published>>

\* The client may start a call on the constructed node.
MayCall == caller.pc = "idle" /\ calls < MaxCalls

\* `with self.__lock:` in a getter: enabled when the lock is free.
CallerMayLock == lock = "free"

\* A getter is called and enters `with self.__lock:`.
GetterCall(ids) ==
    /\ MayCall
    /\ CallerMayLock
    /\ \E op \in Getters(kind), id \in ids :
          caller' = [pc |-> "locked", op |-> op, arg |-> <<id>>, res |-> NoResult]
    /\ lock' = "caller"
    /\ calls' = calls + 1
    /\ published' = << >>
    /\ UNCHANGED <<config, reader, logfile, logrows, stop, connected, readings, rx,
                   delivered, msg_queue, peer_recvd>>

\* The getter reads the stored message, leaves the lock and returns.
GetterReturn ==
    /\ caller.pc = "locked"
    /\ caller' = [caller EXCEPT !.pc = "idle",
                     !.res = GetterResult(kind, caller.op, readings[GetterStream(kind)],
                                          caller.arg[1])]
    /\ lock' = "free"
    /\ UNCHANGED <<config, reader, logfile, logrows, stop, connected, readings, rx,
                   delivered, msg_queue, peer_recvd, calls, published>>


\* --------------------------------------------------------------- actuators
\* sorted(s): insertion sort of a sequence of integers.
RECURSIVE Insert(_, _)
Insert(x, s) ==
    IF s = << >> THEN <<x>>
    ELSE IF x <= Head(s) THEN <<x>> \o s
         ELSE <<Head(s)>> \o Insert(x, Tail(s))

RECURSIVE Sorted(_)
Sorted(s) == IF s = << >> THEN << >> ELSE Insert(Head(s), Sorted(Tail(s)))

\* `sorted([0, r, 1])[1]`: a colour channel limited to [0,1].
LimitColour(r) == Sorted(<<0, r, ColourOne>>)[2]

\* `if intens < 0: intens = 0 elif intens > 100: intens = 100`
LimitIntens(i) == IF i < 0 THEN 0 ELSE IF i > MaxIntens THEN MaxIntens ELSE i

\* `if freq < 0: freq = 0 elif freq > 500: freq = 500`
LimitFreq(f) == IF f < 0 THEN 0 ELSE IF f > MaxFreq THEN MaxFreq ELSE f

\* A frame sent on a publisher socket: bus "cmd" is self.__pub, "msg" is self.__msg_pub.
Sent(bus, n, d, c, p) == [bus |-> bus, name |-> n, dev |-> d, cmd |-> c, data |-> p]

VibrationSetpoint(f, a) == << <<"freq", f>>, <<"amplitude", a>> >>
ColorStamped(r, g, b) == << <<"red", r>>, <<"green", g>>, <<"blue", b>> >>
DiffDrive(l, r) == << <<"vel_left", l>>, <<"vel_right", r>> >>

\* (mutant) command frames are addressed like peer messages, to a neighbor.
CommandTargetNeighbor == NeighborNorth

\* The topic part of every command frame: `self.__name`.
CommandTarget == MyName

\* The frames each actuator call sends, in order.
SpeakerFrames(freq, intens) ==
    << Sent("cmd", CommandTarget, "Speaker", "On",
            VibrationSetpoint(LimitFreq(freq), LimitIntens(intens))) >>
MotorFrames(intens) ==
    << Sent("cmd", CommandTarget, "VibeMotor", "On", VibrationSetpoint(0, LimitIntens(intens))) >>
VibrationStandbyFrames ==
    << Sent("cmd", CommandTarget, "VibeMotor", "Off", VibrationSetpoint(0, 0)),
       Sent("cmd", CommandTarget, "Speaker", "Off", VibrationSetpoint(0, 0)) >>
LightFrames(r, g, b) ==
    << Sent("cmd", CommandTarget, "Light", "On",
            ColorStamped(LimitColour(r), LimitColour(g), LimitColour(b))) >>
LightStandbyFrames ==
    << Sent("cmd", CommandTarget, "Light", "Off", ColorStamped(0, 0, 0)) >>
DledFrames(r, g, b) ==
    << Sent("cmd", CommandTarget, "DiagnosticLed", "On",
            ColorStamped(LimitColour(r), LimitColour(g), LimitColour(b))) >>
DledStandbyFrames ==
    << Sent("cmd", CommandTarget, "DiagnosticLed", "Off", ColorStamped(0, 0, 0)) >>
FishColorFrames(r, g, b) ==
    << Sent("cmd", CommandTarget, "Color", "Set",
            ColorStamped(LimitColour(r), LimitColour(g), LimitColour(b))) >>
FishVelFrames(l, r) ==
    << Sent("cmd", CommandTarget, "Base", "Vel", DiffDrive(l, r)) >>

\* Inputs the client passes: colours in tenths, intensities in percent, Hz.
ColourTriples == { <<15, -2, 4>>, <<4, 15, -2>>, <<-2, 4, 15>>, <<0, 10, 5>> }
SpeakerInputs == { <<-1, -5>>, <<440, 50>>, <<501, 120>>, <<500, 100>>, <<0, 0>> }
IntensInputs == { -5, 0, 50, 100, 120 }
VelInputs == { <<1, -1>>, <<0, 2>> }

\* The actuator calls of a node kind, each with its arguments, the frames it
\* sends and the number of rows it writes to the log.
Cmd(op, arg, frames, rows) == [op |-> op, arg |-> arg, frames |-> frames, rows |-> rows]

LureCommands ==
    { Cmd("set_speaker_vibration", a, SpeakerFrames(a[1], a[2]), 1) : a \in SpeakerInputs }
    \cup { Cmd("set_motor_vibration", <<i>>, MotorFrames(i), 1) : i \in IntensInputs }
    \cup { Cmd("set_light_rgb", a, LightFrames(a[1], a[2], a[3]), 1) : a \in ColourTriples }
    \cup { Cmd("set_diagnostic_led_rgb", a, DledFrames(a[1], a[2], a[3]), 1) : a \in ColourTriples }
    \cup { Cmd("vibration_standby", << >>, VibrationStandbyFrames, 2),
           Cmd("light_standby", << >>, LightStandbyFrames, 1),
           Cmd("diagnostic_led_standby", << >>, DledStandbyFrames, 1) }

FishCommands ==
    { Cmd("set_color", a, FishColorFrames(a[1], a[2], a[3]), 0) : a \in ColourTriples }
    \cup { Cmd("set_vel", a, FishVelFrames(a[1], a[2]), 0) : a \in VelInputs }

Commands(k) == IF k = "Lure" THEN LureCommands ELSE FishCommands

\* The lines a setter prints: the vibration setters print one line for each
\* input they limit; the colour setters print nothing.
LimitReports(op, arg) ==
    IF op = "set_speaker_vibration"
    THEN (IF arg[2] < 0 \/ arg[2] > MaxIntens THEN <<"Intensity value limited">> ELSE << >>)
         \o (IF arg[1] < 0 \/ arg[1] > MaxFreq THEN <<"Frequency limited">> ELSE << >>)
    ELSE IF op = "set_motor_vibration"
    THEN (IF arg[1] < 0 \/ arg[1] > MaxIntens THEN <<"Motor intens value limited">> ELSE << >>)
    ELSE << >>

\* __write_to_log on the caller's side: writerow raises ValueError on a closed file.
LogWriteRaises == log /\ logfile = "closed"

\* An actuator call: the frames are sent, then the log rows are written.
Command(C) ==
    /\ MayCall
    /\ \E c \in C :
          /\ published' = c.frames
          /\ caller' = [pc |-> "idle", op |-> c.op, arg |-> c.arg,
                        res |-> [(IF LogWriteRaises /\ c.rows > 0
                                  THEN Raised("ValueError") ELSE Returned("done"))
                                 EXCEPT !.out = LimitReports(c.op, c.arg)]]
          /\ logrows' = IF LogWriteRaises THEN logrows ELSE logrows + RowsWritten(c.rows)
    /\ calls' = calls + 1
    /\ UNCHANGED <<config, reader, logfile, stop, connected, readings, lock, rx,
                   delivered, msg_queue, peer_recvd>>

\* ------------------------------------------------------------------- stop()
\* The standby call stop() makes at each of its first three positions.
StopStandbyAt(pc) ==
    IF pc = "stop_vib" THEN Cmd("vibration_standby", << >>, VibrationStandbyFrames, 2)
    ELSE IF pc = "stop_light" THEN Cmd("light_standby", << >>, LightStandbyFrames, 1)
    ELSE Cmd("diagnostic_led_standby", << >>, DledStandbyFrames, 1)

\* (mutant) stop() switches only the vibration actuators off.
StopSkipsLights(pc) == "stop_flag"

StopNextPc(pc) ==
    IF pc = "stop_vib" THEN "stop_light"
    ELSE IF pc = "stop_light" THEN "stop_dled"
    ELSE "stop_flag"

\* The position of stop() after the call is entered: its first statement.
StopEntry == "stop_vib"

StopCall ==
    /\ MayCall
    /\ kind = "Lure"
    /\ caller' = [pc |-> StopEntry, op |-> "stop", arg |-> << >>, res |-> NoResult]
    /\ calls' = calls + 1
    /\ published' = << >>
    /\ UNCHANGED <<config, reader, logfile, logrows, stop, connected, readings, lock, rx,
                   delivered, msg_queue, peer_recvd>>

\* vibration_standby(), light_standby(), diagnostic_led_standby() inside stop();
\* an exception of the log write ends stop() there.
StopStandby ==
    /\ caller.pc \in {"stop_vib", "stop_light", "stop_dled"}
    /\ LET c == StopStandbyAt(caller.pc) IN
       /\ published' = published \o c.frames
       /\ IF LogWriteRaises
          THEN /\ caller' = [caller EXCEPT !.pc = "idle", !.res = Raised("ValueError")]
               /\ UNCHANGED logrows
          ELSE /\ caller' = [caller EXCEPT !.pc = StopNextPc(caller.pc)]
               /\ logrows' = logrows + RowsWritten(c.rows)
    /\ UNCHANGED <<config, reader, logfile, stop, connected, readings, lock, rx,
                   delivered, msg_queue, peer_recvd, calls>>

\* `self.__stop = True`
StopSetFlag ==
    /\ caller.pc = "stop_flag"
    /\ stop' = TRUE
    /\ caller' = [caller EXCEPT !.pc = "stop_join"]
    /\ UNCHANGED <<config, reader, logfile, logrows, connected, readings, lock, rx,
                   delivered, msg_queue, peer_recvd, calls, published>>

\* The Receiver thread has ended: its loop was left, or an exception ended it.
RxTerminated == rx.pc \in {"done", "crashed"}

\* (mutant) the join returns at once.
JoinNeverWaits == TRUE

\* `self.__comm_thread.join()` blocks until the thread has ended.
JoinMayReturn == RxTerminated

\* `self.__comm_thread.join()` returns.
StopJoin ==
    /\ caller.pc = "stop_join"
    /\ JoinMayReturn
    /\ caller' = [caller EXCEPT !.pc = "stop_close"]
    /\ UNCHANGED <<config, reader, logfile, logrows, stop, connected, readings, lock, rx,
                   delivered, msg_queue, peer_recvd, calls, published>>

\* `if self.__log: self.__logfile.close()`, then stop() returns.
StopClose ==
    /\ caller.pc = "stop_close"
    /\ logfile' = IF log THEN "closed" ELSE logfile
    /\ caller' = [caller EXCEPT !.pc = "idle", !.res = Returned("done")]
    /\ UNCHANGED <<config, reader, logrows, stop, connected, readings, lock, rx,
                   delivered, msg_queue, peer_recvd, calls, published>>


\* ----------------------------------------------------------- peer messages
MessageTexts == {"hi"}

\* The label read_message attaches: phys_logi_map.get(sender, None).
LabelOf(map, sender) == IF sender \in DOMAIN map THEN map[sender] ELSE "None"

\* (mutant) the message is addressed like a command, to this node's own name.
MessageFramesToSelf(table, direction, text) ==
    << Sent("msg", MyName, "Message", MyName, text) >>

\* The frame send_message publishes for a direction of the neighbor table.
MessageFrames(table, direction, text) ==
    << Sent("msg", table[direction], "Message", MyName, text) >>

\* `direction in self.__neighbors` raises TypeError when the table is None.
NeighborsIsNone == built = "name"

\* send_message(direction, msg)
SendMessage(D) ==
    /\ MayCall
    /\ kind = "Lure"
    /\ \E d \in D, text \in MessageTexts :
          /\ caller' = [pc |-> "idle", op |-> "send_message", arg |-> <<d, text>>,
                        res |-> IF NeighborsIsNone THEN Raised("TypeError")
                                ELSE IF d \in DOMAIN neighbors THEN Returned("True")
                                ELSE Returned("False")]
          /\ published' = IF ~NeighborsIsNone /\ d \in DOMAIN neighbors
                          THEN MessageFrames(neighbors, d, text) ELSE << >>
    /\ calls' = calls + 1
    /\ UNCHANGED <<config, reader, logfile, logrows, stop, connected, readings, lock, rx,
                   delivered, msg_queue, peer_recvd>>

\* read_message(): `msg = []; if self.__msg_queue:` -- an empty queue returns
\* the empty list at once, otherwise the call goes on to take the lock.
ReadMessageCall ==
    /\ MayCall
    /\ kind = "Lure"
    /\ caller' = IF msg_queue = << >>
                 THEN [pc |-> "idle", op |-> "read_message", arg |-> << >>,
                       res |-> Returned("empty")]
                 ELSE [pc |-> "rm_lock", op |-> "read_message", arg |-> << >>,
                       res |-> NoResult]
    /\ calls' = calls + 1
    /\ published' = << >>
    /\ UNCHANGED <<config, reader, logfile, logrows, stop, connected, readings, lock, rx,
                   delivered, msg_queue, peer_recvd>>

\* `with self.__lock:` of read_message.
ReadMessageLock ==
    /\ caller.pc = "rm_lock"
    /\ CallerMayLock
    /\ lock' = "caller"
    /\ caller' = [caller EXCEPT !.pc = "rm_pop"]
    /\ UNCHANGED <<config, reader, logfile, logrows, stop, connected, readings, rx,
                   delivered, msg_queue, peer_recvd, calls, published>>

\* (mutant) the entry is read but stays in the list.
QueueAfterPeek(q) == q

\* (mutant) the entry returned is the oldest one.
PoppedFirst(q) == q[1]

\* The entry `self.__msg_queue.pop()` returns: the last one of the list.
PoppedEntry(q) == q[Len(q)]

\* The list after `self.__msg_queue.pop()`: its last entry is gone.
QueueAfterPop(q) == SubSeq(q, 1, Len(q) - 1)

\* `msg = self.__msg_queue.pop()` takes the last entry; the label is attached,
\* the lock released and the message returned.
ReadMessagePop ==
    /\ caller.pc = "rm_pop"
    /\ IF msg_queue = << >>
       THEN /\ caller' = [caller EXCEPT !.pc = "idle", !.res = Raised("IndexError")]
            /\ UNCHANGED msg_queue
       ELSE LET m == PoppedEntry(msg_queue) IN
            /\ msg_queue' = QueueAfterPop(msg_queue)
            /\ caller' = [caller EXCEPT !.pc = "idle",
                             !.res = [NoResult EXCEPT !.kind = "msg",
                                         !.msg = [sender |-> m.sender, data |-> m.data,
                                                  label |-> LabelOf(phys_logi_map, m.sender)]]]
    /\ lock' = "free"
    /\ UNCHANGED <<config, reader, logfile, logrows, stop, connected, readings, rx,
                   delivered, peer_recvd, calls, published>>

\* ------------------------------------------------- Fish: the other getters
\* The nested message field f of m as a tuple; an unset field reads as zeros.
Triple(m, f) == IF Rep(m, f) = << >> THEN <<0, 0, 0>> ELSE Rep(m, f)[Len(Rep(m, f))]

\* Fish.get_light_rgb(), on the stored light message.
FishGetLightRgb(m) == ArrayResult(Triple(m, "color"))

\* Fish.get_true_pose(), on the stored pose message.
FishGetTruePose(m) == ArrayResult(Triple(m, "pose"))

\* Fish.get_pixel(side, index): `c = eye.image[index]`, then the tuple is built
\* from the name p, which is bound nowhere.
FishGetPixel(l, r, side, index) ==
    IF side \in {LEFT_EYE, RIGHT_EYE}
    THEN LET eye == IF side = LEFT_EYE THEN l ELSE r IN
         IF InRange(Rep(eye, "image"), index) THEN Raised("NameError")
         ELSE Raised("IndexError")
    ELSE Returned("none")

\* Fish.get_pixels(): the colours and the distances of both eyes.
FishGetPixels(l, r) ==
    [NoResult EXCEPT !.kind = "array",
                     !.arr = Rep(l, "image") \o Rep(r, "image"),
                     !.oarr = Rep(l, "zbuffer") \o Rep(r, "zbuffer")]

\* The Fish getters whose body is inside `with self.__lock:`.
LockedFieldGetters == {"get_light_rgb", "get_true_pose", "get_pixel", "get_pixels"}
FieldGetterArgs(op) ==
    IF op = "get_pixel" THEN { <<LEFT_EYE, 0>>, <<RIGHT_EYE, 0>>, <<OBJECT_SIDE_RIGHT, 0>> }
    ELSE { << >> }

FieldGetterResult(op, store, arg) ==
    IF op = "get_light_rgb" THEN FishGetLightRgb(store["light"])
    ELSE IF op = "get_true_pose" THEN FishGetTruePose(store["pose"])
    ELSE IF op = "get_pixel"
         THEN FishGetPixel(store["left_eye"], store["right_eye"], arg[1], arg[2])
    ELSE FishGetPixels(store["left_eye"], store["right_eye"])

\* One of these getters is called and enters `with self.__lock:`.
FieldGetterCall ==
    /\ MayCall
    /\ kind = "Fish"
    /\ CallerMayLock
    /\ \E op \in LockedFieldGetters :
          \E a \in FieldGetterArgs(op) :
             caller' = [pc |-> "flocked", op |-> op, arg |-> a, res |-> NoResult]
    /\ lock' = "caller"
    /\ calls' = calls + 1
    /\ published' = << >>
    /\ UNCHANGED <<config, reader, logfile, logrows, stop, connected, readings, rx,
                   delivered, msg_queue, peer_recvd>>

\* It reads the stored messages, leaves the lock and returns (or raises).
FieldGetterReturn ==
    /\ caller.pc = "flocked"
    /\ caller' = [caller EXCEPT !.pc = "idle",
                     !.res = FieldGetterResult(caller.op, readings, caller.arg)]
    /\ lock' = "free"
    /\ UNCHANGED <<config, reader, logfile, logrows, stop, connected, readings, rx,
                   delivered, msg_queue, peer_recvd, calls, published>>

\* Fish.get_vel_ref() and Fish.get_color() read the stored message field by
\* field and have no `with self.__lock:`.
UnlockedGetters == {"get_vel_ref", "get_color"}
UnlockedStream(op) == IF op = "get_vel_ref" THEN "velref" ELSE "color"
UnlockedFields(op) ==
    IF op = "get_vel_ref" THEN <<"vel_left", "vel_right">> ELSE <<"red", "green", "blue">>

\* The i-th field the getter reads, on the stored message m.
UnlockedFieldValue(op, m, i) ==
    IF op = "get_vel_ref" THEN Scalar(m, UnlockedFields(op)[i])
    ELSE Triple(m, "color")[i]

UnlockedGetterCall ==
    /\ MayCall
    /\ kind = "Fish"
    /\ \E op \in UnlockedGetters :
          caller' = [pc |-> "reading", op |-> op, arg |-> << >>, res |-> NoResult]
    /\ calls' = calls + 1
    /\ published' = << >>
    /\ UNCHANGED <<config, reader, logfile, logrows, stop, connected, readings, lock, rx,
                   delivered, msg_queue, peer_recvd>>

\* The next field of the returned tuple is read; after the last one the
\* getter returns.
UnlockedGetterRead ==
    /\ caller.pc = "reading"
    /\ LET i == Len(caller.res.arr) + 1
           v == UnlockedFieldValue(caller.op, readings[UnlockedStream(caller.op)], i)
           last == i = Len(UnlockedFields(caller.op))
       IN caller' = [caller EXCEPT !.pc = IF last THEN "idle" ELSE "reading",
                                   !.res.arr = Append(caller.res.arr, v),
                                   !.res.kind = IF last THEN "array" ELSE "none"]
    /\ UNCHANGED <<config, reader, logfile, logrows, stop, connected, readings, lock, rx,
                   delivered, msg_queue, peer_recvd, calls, published>>

\* The steps of the client thread that take no input.
Caller ==
    \/ CtorWait \/ CtorSettle \/ GetterReturn
    \/ StopCall \/ StopStandby \/ StopSetFlag \/ StopJoin \/ StopClose
    \/ ReadMessageCall \/ ReadMessageLock \/ ReadMessagePop

\* ------------------------------------------- a second read_message caller
\* read_message() called from another client thread, once, on the constructed
\* node: the emptiness test `if self.__msg_queue:` is made without the lock.
ReaderCall ==
    /\ reader.pc = "idle"
    /\ reader.op = ""
    /\ kind = "Lure"
    /\ caller.pc \notin {"ctor_wait", "settle"}
    /\ reader' = IF msg_queue = << >>
                 THEN [pc |-> "idle", op |-> "read_message", arg |-> << >>,
                       res |-> Returned("empty")]
                 ELSE [pc |-> "rm_lock", op |-> "read_message", arg |-> << >>,
                       res |-> NoResult]
    /\ UNCHANGED <<config, logfile, logrows, stop, connected, readings, lock, rx,
                   delivered, msg_queue, peer_recvd, caller, calls, published>>

\* `with self.__lock:` in that thread.
ReaderLock ==
    /\ reader.pc = "rm_lock"
    /\ lock = "free"
    /\ lock' = "reader"
    /\ reader' = [reader EXCEPT !.pc = "rm_pop"]
    /\ UNCHANGED <<config, logfile, logrows, stop, connected, readings, rx,
                   delivered, msg_queue, peer_recvd, caller, calls, published>>

\* `msg = self.__msg_queue.pop()` in that thread: IndexError on an empty list.
ReaderPop ==
    /\ reader.pc = "rm_pop"
    /\ IF msg_queue = << >>
       THEN /\ reader' = [reader EXCEPT !.pc = "idle", !.res = Raised("IndexError")]
            /\ UNCHANGED msg_queue
       ELSE LET m == PoppedEntry(msg_queue) IN
            /\ msg_queue' = QueueAfterPop(msg_queue)
            /\ reader' = [reader EXCEPT !.pc = "idle",
                             !.res = [NoResult EXCEPT !.kind = "msg",
                                         !.msg = [sender |-> m.sender, data |-> m.data,
                                                  label |-> LabelOf(phys_logi_map, m.sender)]]]
    /\ lock' = "free"
    /\ UNCHANGED <<config, logfile, logrows, stop, connected, readings, rx,
                   delivered, peer_recvd, caller, calls, published>>

\* ---------------------------------------------------------- specifications
\* One frame per node kind that the dispatch knows, and for a Lure one that
\* ends the Receiver thread.
ProbeFrames(k) ==
    IF k = "Lure"
    THEN { Frame(MyName, "IR", "Ranges", RangesA), Frame(MyName, "Acc", "Measurements", AccTwo) }
    ELSE { Frame(MyName, "Object", "Ranges", ObjectsA) }
ProbePeers == { PeerFrame(MyName, NeighborNorth, "hi") }
ProbeCommands(k) ==
    IF k = "Lure" THEN { Cmd("light_standby", << >>, LightStandbyFrames, 1) }
    ELSE { Cmd("set_vel", <<1, -1>>, FishVelFrames(1, -1), 0) }
ProbeIds == {IR_F}
ProbeDirections == {"north"}

RecvAny == RxRecv(Frames(kind))
RecvProbe == RxRecv(ProbeFrames(kind))
PollAny == RxPoll(PeerFrames)
PollProbe == RxPoll(ProbePeers)
GetAny == GetterCall(SensorIds)
GetProbe == GetterCall(ProbeIds)
CommandAny == Command(Commands(kind))
CommandProbe == Command(ProbeCommands(kind))
SendAny == SendMessage(Directions)
SendProbe == SendMessage(ProbeDirections)

\* The sensor side: every frame of the data source, every getter and sensor id.
Next ==
    \/ Receiver \/ RecvAny \/ PollProbe
    \/ Caller \/ GetAny \/ CommandProbe \/ SendProbe

Spec == Init /\ [][Next]_vars

\* The actuator side: every actuator call with every input.
NextActuators ==
    \/ Receiver \/ RecvProbe \/ PollProbe
    \/ Caller \/ GetProbe \/ CommandAny \/ SendProbe

SpecActuators == Init /\ [][NextActuators]_vars

\* The peer mesh: every peer frame and every direction.
NextMesh ==
    \/ Receiver \/ RecvProbe \/ PollAny
    \/ Caller \/ GetProbe \/ CommandProbe \/ SendAny

SpecMesh == Init /\ [][NextMesh]_vars

\* The stored readings: the frames of the streams the Fish getters read, and
\* every Fish getter.
StoreFrames(k) ==
    IF k = "Lure" THEN ProbeFrames(k)
    ELSE { Frame(MyName, "Base", "VelRef", VelA),
           Frame(MyName, "Base", "GroundTruth", PoseA),
           Frame(MyName, "Color", "ColorVal", ColourA),
           Frame(MyName, "Light", "Readings", ColourA),
           Frame(MyName, "Eye", "Left", EyeA) }
RecvStore == RxRecv(StoreFrames(kind))

NextStore ==
    \/ Receiver \/ RecvStore \/ PollProbe
    \/ Caller \/ GetProbe \/ CommandProbe \/ SendProbe
    \/ FieldGetterCall \/ FieldGetterReturn \/ UnlockedGetterCall \/ UnlockedGetterRead

SpecStore == Init /\ [][NextStore]_vars

\* The steps by which the client thread goes on inside a call it has started,
\* or inside the constructor.
CallerContinues ==
    \/ CtorWait \/ CtorSettle \/ GetterReturn
    \/ StopStandby \/ StopSetFlag \/ StopJoin \/ StopClose
    \/ ReadMessageLock \/ ReadMessagePop

\* Construction, readings, peer messages and stop(); no setter or
\* send_message call.
NextLive ==
    \/ Receiver \/ RecvProbe \/ PollProbe
    \/ Caller \/ GetProbe

\* Both threads keep running, and the data source delivers the frames it has
\* (MaxFrames of them) to a Receiver that waits in recv_multipart.
Fairness ==
    /\ WF_vars(Receiver)
    /\ WF_vars(RecvProbe)
    /\ WF_vars(PollProbe)
    /\ WF_vars(CallerContinues)

SpecLive == Init /\ [][NextLive]_vars /\ Fairness

\* Two client threads that read messages while the Receiver appends them.
NextReaders ==
    \/ Receiver \/ RecvProbe \/ PollAny
    \/ Caller \/ GetProbe
    \/ ReaderCall \/ ReaderLock \/ ReaderPop

SpecReaders == Init /\ [][NextReaders]_vars

\* ------------------------------------------------------------------ claims
\* A call of op has returned or raised, and no later call has started.
Finished(op) == caller.pc = "idle" /\ caller.op = op /\ caller.res.kind # "none"

\* C1: connect-latch monotonicity -- once connected is true, no step of the
\* Receiver or of the caller (getter, setter, stop) makes it false again.
ConnectLatchMonotonic == [][connected => connected']_vars

\* C1 witness: the flag is set, later frames were received (among them an
\* unrecognized one) and the client has made calls.
ConnectLatchWitness ==
    /\ connected
    /\ delivered = MaxFrames
    /\ rx.report # ""
    /\ calls > 0

\* The messages an update writes completely into the stream of the range
\* getters, and the empty message the store starts with.
CompleteMessages(k) ==
    { f.data : f \in { g \in Frames(k) : StreamOf(k, g.dev, g.cmd) = GetterStream(k) } }
    \cup { EmptyMsg }

\* C2: snapshot atomicity -- while a range getter is inside its locked region
\* the stream holds a completely written message (or nothing yet), and what
\* the getter returns is its result on such a message.
SnapshotAtomicity ==
    /\ caller.pc = "locked" => readings[GetterStream(kind)] \in CompleteMessages(kind)
    /\ \A op \in Getters(kind) :
          Finished(op) =>
             caller.res \in { GetterResult(kind, op, m, caller.arg[1]) :
                                 m \in CompleteMessages(kind) }

\* C2 witness: the Receiver has a frame of the getter's stream to decode and
\* waits for the lock the getter holds.
SnapshotContended ==
    /\ caller.pc = "locked"
    /\ rx.pc = "acquire"
    /\ StreamOf(kind, rx.frame.dev, rx.frame.cmd) = GetterStream(kind)
    /\ readings[GetterStream(kind)] # EmptyMsg

\* C3: handshake safety -- the constructor is past its wait only in states
\* where connected is true; in particular whenever it has returned.
HandshakeSafety == caller.pc # "ctor_wait" => connected

\* C3 witness: the constructor has returned and the client has not called yet.
ConstructorReturned == caller.pc = "idle" /\ calls = 0 /\ connected

\* An "Off" frame for device dev is among the frames sent by the current call.
OffSent(dev) ==
    \E i \in 1..Len(published) :
       /\ published[i].bus = "cmd"
       /\ published[i].dev = dev
       /\ published[i].cmd = "Off"

StatefulActuators == {"VibeMotor", "Speaker", "Light", "DiagnosticLed"}
AllOffSent == \A dev \in StatefulActuators : OffSent(dev)

\* C4: shutdown ordering -- the step of stop() that sets the stop flag is
\* taken only after stop() has sent an Off frame for every stateful actuator,
\* and so is the return of its join on the Receiver thread.
ShutdownOrdering ==
    /\ [][(caller.pc = "stop_flag" /\ stop') => AllOffSent]_vars
    /\ [](caller.pc \in {"stop_join", "stop_close"} => AllOffSent)

\* C4 witness: stop() has seen the Receiver thread terminated.
ShutdownObserved == caller.pc = "stop_close" /\ stop /\ RxTerminated

\* The Receiver holds a frame whose pair the dispatch does not know.
HoldsUnknown ==
    /\ rx.pc \in {"connect", "dispatch"}
    /\ StreamOf(kind, rx.frame.dev, rx.frame.cmd) = ""

\* C5: unknown protocol tolerance -- handling a frame with an unknown pair
\* changes no stored reading and leaves the Receiver in its loop, and a frame
\* with a known pair (also one that follows an unknown frame) is stored: when
\* its decode ends the stream holds its value.
UnknownTolerance ==
    /\ [][HoldsUnknown => /\ readings' = readings
                          /\ rx'.pc \in {"connect", "dispatch", "poll", "loop"}]_vars
    /\ [](rx.pc = "parse" /\ rx.pos = Len(rx.frame.data)
            => readings[StreamOf(kind, rx.frame.dev, rx.frame.cmd)] = rx.frame.data)

\* C5 witness: an unknown device was reported for the first frame and the
\* value of the second, known frame is now stored.
KnownAfterUnknown ==
    /\ rx.report = "unknown device"
    /\ delivered = 2
    /\ rx.pc = "parse"
    /\ rx.pos = Len(rx.frame.data)
    /\ rx.frame.data # EmptyMsg
    /\ readings[StreamOf(kind, rx.frame.dev, rx.frame.cmd)] = rx.frame.data

\* x limited to the interval [lo, hi].
Clamp(x, lo, hi) == IF x < lo THEN lo ELSE IF x > hi THEN hi ELSE x

ClampingSetters == {"set_light_rgb", "set_diagnostic_led_rgb", "set_color",
                    "set_motor_vibration", "set_speaker_vibration"}

\* The setpoints the claim expects in the frame of setter op called with a.
ExpectedSetpoints(op, a) ==
    IF op = "set_motor_vibration" THEN VibrationSetpoint(0, Clamp(a[1], 0, 100))
    ELSE IF op = "set_speaker_vibration"
         THEN VibrationSetpoint(Clamp(a[1], 0, 500), Clamp(a[2], 0, 100))
    ELSE ColorStamped(Clamp(a[1], 0, 10), Clamp(a[2], 0, 10), Clamp(a[3], 0, 10))

\* The frame part of C6 alone: whatever else happens, the one frame a setter
\* sends carries the clamped inputs.
ClampedFrameSent ==
    \A op \in ClampingSetters :
       (caller.pc = "idle" /\ caller.op = op) =>
          /\ Len(published) = 1
          /\ published[1].data = ExpectedSetpoints(op, caller.arg)

\* C6 (as claimed): setpoint clamping -- for every input a setter completes
\* without raising and has sent one frame whose setpoints are the inputs
\* clamped to [0,1] (colour), [0,100] (intensity) and [0,500] (frequency).
SetpointClamping ==
    \A op \in ClampingSetters :
       (caller.pc = "idle" /\ caller.op = op) =>
          /\ caller.res.kind = "done"
          /\ Len(published) = 1
          /\ published[1].data = ExpectedSetpoints(op, caller.arg)

\* C7 (as claimed): range correction -- get_range on a sensor whose stored
\* reading is below 1e-6 returns the max_range of the stored message, and
\* returns every other stored reading unchanged.
RangeCorrection ==
    [][ ( /\ caller.pc = "locked"
          /\ caller'.pc = "idle"
          /\ caller.op = "get_range"
          /\ caller.arg[1] # ARRAY
          /\ InRange(Rep(readings[GetterStream(kind)], "range"), caller.arg[1]) )
        => LET m == readings[GetterStream(kind)]
               v == PyIndex(Rep(m, "range"), caller.arg[1])
           IN caller'.res = ScalarResult(IF BelowEps(v) THEN Scalar(m, "max_range") ELSE v)
      ]_vars

InertMesh ==
    (kind = "Lure" /\ built = "name") =>
       /\ Finished("send_message") => (caller.res.kind = "False" /\ published = << >>)
       /\ Finished("read_message") => caller.res.kind = "empty"

\* The direction under which the neighbor table lists a physical name.
ExpectedLabel(sender) ==
    IF \E d \in DOMAIN neighbors : neighbors[d] = sender
    THEN CHOOSE d \in DOMAIN neighbors : neighbors[d] = sender
    ELSE "None"

\* C10: label resolution -- a message returned by read_message is labelled
\* with the direction the neighbor table gives for its sender, or None for a
\* sender outside the table; the physical-to-logical map never changes.
LabelResolution ==
    /\ []((Finished("read_message") /\ caller.res.kind = "msg")
            => caller.res.msg.label = ExpectedLabel(caller.res.msg.sender))
    /\ [][phys_logi_map' = phys_logi_map]_vars

\* C10 witness: a message of the northern neighbor was read and labelled.
LabelledNorth ==
    /\ Finished("read_message")
    /\ caller.res.kind = "msg"
    /\ caller.res.msg.sender = NeighborNorth
    /\ caller.res.msg.label = "north"

\* C11: inbox consumption -- the inbox shrinks only by the pop of a
\* read_message call, which removes exactly one entry and returns that entry
\* (so no entry is returned twice); read_message called on an empty inbox
\* returns the empty result in the same step and leaves the inbox unchanged.
InboxConsumption ==
    /\ [][Len(msg_queue') < Len(msg_queue)
            => /\ caller.pc = "rm_pop"
               /\ caller.op = "read_message"
               /\ Len(msg_queue') = Len(msg_queue) - 1
               /\ msg_queue' = SubSeq(msg_queue, 1, Len(msg_queue'))
               /\ caller'.res.kind = "msg"
               /\ caller'.res.msg.sender = msg_queue[Len(msg_queue)].sender
               /\ caller'.res.msg.data = msg_queue[Len(msg_queue)].data]_vars
    /\ [][(caller.pc = "rm_pop" /\ caller'.pc = "idle")
            => Len(msg_queue') = Len(msg_queue) - 1]_vars
    /\ [][(caller'.op = "read_message" /\ calls' = calls + 1 /\ msg_queue = << >>)
            => /\ caller'.pc = "idle"
               /\ caller'.res.kind = "empty"
               /\ msg_queue' = msg_queue]_vars

\* C11 witness: two peer messages were appended, one read_message returned
\* the later one and the earlier one is still in the inbox.
InboxHalfRead ==
    /\ Finished("read_message")
    /\ caller.res.kind = "msg"
    /\ peer_recvd = 2
    /\ Len(msg_queue) = 1
    /\ rx.pc \notin {"qlock", "qappend"}

\* The positions of stop() before it waits for the Receiver thread.
StopBeforeJoin == {"stop_vib", "stop_light", "stop_dled", "stop_flag"}

\* C12 (as claimed): double stop -- a stop() entered when the stop flag is
\* already set (an earlier stop() has finished) raises nothing and leaves the
\* stop flag, the terminated Receiver thread and the log file as they were.
DoubleStopIdempotent ==
    [][(stop /\ caller.op = "stop" /\ caller.pc \in StopBeforeJoin)
         => /\ caller'.res.kind # "raised"
            /\ stop' = stop
            /\ logfile' = logfile
            /\ RxTerminated']_vars

\* C13: stop sequence -- the join of stop() is reached only with the stop
\* flag set, the log file is closed only by stop() after its join returned,
\* and whenever the log file is closed the Receiver thread has ended.
StopSequence ==
    /\ [](caller.pc \in {"stop_join", "stop_close"} => stop)
    /\ [][(logfile # "closed" /\ logfile' = "closed")
            => (stop /\ RxTerminated /\ caller.pc = "stop_close")]_vars
    /\ [](logfile = "closed" => (stop /\ RxTerminated))

\* C13 witness: stop() has returned, the Receiver left its loop and the log
\* file is closed.
LogClosedAfterJoin ==
    /\ Finished("stop")
    /\ caller.res.kind = "done"
    /\ rx.pc = "done"
    /\ logfile = "closed"

\* The positions at which a getter reads fields of a stored message.
ReadingPositions == {"locked", "flocked", "reading"}

\* C14 (as claimed): every getter that returns a stored reading reads the
\* stored fields only while the caller holds the lock.
GettersReadUnderLock == caller.pc \in ReadingPositions => lock = "caller"

\* A getter's result that stands for "no reading stored": -1, or (None, -1).
IsNoData(r) == r = ScalarResult(NoData) \/ r.kind = "nodata"

\* C15 (as claimed): populated on first use -- the first getter call after
\* the constructor returned does not give the no-data result for the range
\* stream, which the data source publishes.
PopulatedOnFirstUse ==
    (calls = 1 /\ caller.pc = "idle" /\ caller.op \in Getters(kind))
       => ~IsNoData(caller.res)

\* The step in which a range getter reads the stored message and returns.
RangeGetterReturns == caller.pc = "locked" /\ caller'.pc = "idle"

\* C16 (as claimed): no-data sentinel -- a scalar range getter (get_range of
\* Lure and Fish, get_ir_raw_value) that finds no reading stored returns -1.
NoDataSentinel ==
    [][(/\ RangeGetterReturns
        /\ caller.op \in {"get_range", "get_ir_raw_value"}
        /\ caller.arg[1] # ARRAY
        /\ readings[GetterStream(kind)] = EmptyMsg)
         => caller'.res = ScalarResult(NoData)]_vars

\* The repeated field a range getter returns values of.
GetterField(op) == IF op = "get_ir_raw_value" THEN "raw_value" ELSE "range"

\* C17 (as claimed): ARRAY index -- on a store that holds a reading, a range
\* getter called with ARRAY returns one value per sensor, in sensor order
\* (each the stored value unless that is below the correction threshold), and
\* called with a sensor id it returns the value of that one sensor.
ArrayIndex ==
    [][(RangeGetterReturns /\ readings[GetterStream(kind)] # EmptyMsg)
         => LET stored == Rep(readings[GetterStream(kind)], GetterField(caller.op))
                id == caller.arg[1]
                r == caller'.res
            IN IF id = ARRAY
               THEN /\ r.kind = "array"
                    /\ Len(r.arr) = Len(stored)
                    /\ \A i \in 1..Len(stored) :
                          ~BelowEps(stored[i]) => r.arr[i] = stored[i]
               ELSE /\ r.kind = "scalar"
                    /\ ~BelowEps(PyIndex(stored, id)) => r.val = PyIndex(stored, id)]_vars

ActuatorCalls == {"set_vel", "set_color", "set_light_rgb", "set_diagnostic_led_rgb",
                  "set_motor_vibration", "set_speaker_vibration",
                  "vibration_standby", "light_standby", "diagnostic_led_standby"}

\* C18: every frame sent on the command bus, by a setter, by a standby call
\* or by the standby calls of stop(), has this node's own name as its target,
\* and each of these calls has sent at least one such frame when it ends.
CommandsToOwnName ==
    /\ \A i \in 1..Len(published) :
          published[i].bus = "cmd" => published[i].name = MyName
    /\ (caller.pc = "idle" /\ caller.op \in ActuatorCalls)
          => (published # << >> /\ \A i \in 1..Len(published) : published[i].bus = "cmd")

\* C18 witness: vibration_standby has sent its two frames, both to this node.
StandbySentToSelf ==
    /\ caller.pc = "idle"
    /\ caller.op = "vibration_standby"
    /\ Len(published) = 2
    /\ published[1].name = MyName
    /\ published[2].name = MyName
    /\ published[2].dev = "Speaker"

\* The devices the dispatch of a node kind has a branch for.
KnownDevices(k) ==
    IF k = "Lure" THEN {"IR", "Acc"} ELSE {"Object", "Base", "Light", "Color", "Eye"}

\* C19 (as claimed): unknown reports -- when the Receiver dispatches a frame
\* whose pair it does not know, it prints a report: "unknown device" for a
\* device without a branch, "unknown command" for a known device.
UnknownReported ==
    [][(/\ rx.pc = "dispatch"
        /\ rx'.pc # "dispatch"
        /\ StreamOf(kind, rx.frame.dev, rx.frame.cmd) = "")
         => rx'.report = (IF rx.frame.dev \in KnownDevices(kind)
                          THEN "unknown command" ELSE "unknown device")]_vars

\* The setpoints of setter op called with a if no input were limited.
UnlimitedSetpoints(op, a) ==
    IF op = "set_motor_vibration" THEN VibrationSetpoint(0, a[1])
    ELSE IF op = "set_speaker_vibration" THEN VibrationSetpoint(a[1], a[2])
    ELSE ColorStamped(a[1], a[2], a[3])

\* C20 (as claimed): clamping is reported -- a setter that sent a setpoint
\* different from its input has printed a report of the limiting.
ClampingReported ==
    \A op \in ClampingSetters :
       (/\ caller.pc = "idle"
        /\ caller.op = op
        /\ published[1].data # UnlimitedSetpoints(op, caller.arg))
          => caller.res.out # << >>

\* The step in which read_message takes an entry from a non-empty inbox.
InboxPop == caller.pc = "rm_pop" /\ caller'.pc = "idle" /\ msg_queue # << >>

\* C21 (as claimed): FIFO inbox -- read_message returns the entry that was
\* appended first among the pending ones and leaves the later ones.
InboxFifo ==
    [][InboxPop
         => /\ caller'.res.msg.sender = Head(msg_queue).sender
            /\ caller'.res.msg.data = Head(msg_queue).data
            /\ msg_queue' = Tail(msg_queue)]_vars

\* C22: latest message -- read_message on a non-empty inbox returns the entry
\* the Receiver appended last, and what stays in the inbox is all the older
\* entries in their order.
InboxLatest ==
    [][InboxPop
         => LET n == Len(msg_queue) IN
            /\ caller'.res.kind = "msg"
            /\ caller'.res.msg.sender = msg_queue[n].sender
            /\ caller'.res.msg.data = msg_queue[n].data
            /\ msg_queue' = [i \in 1..(n - 1) |-> msg_queue[i]]]_vars

\* C22 witness: of two pending messages of different senders the one of the
\* stranger was returned and the one of the northern neighbor is still pending.
LatestReturnedOlderPending ==
    /\ Finished("read_message")
    /\ caller.res.kind = "msg"
    /\ caller.res.msg.sender = Stranger
    /\ Len(msg_queue) = 1
    /\ msg_queue[1].sender = NeighborNorth
    /\ peer_recvd = 2

\* The Receiver is in the middle of ParseFromString: some pair of the payload
\* is not merged yet.
RxDecoding == rx.pc = "parse" /\ rx.pos < Len(rx.frame.data)

\* C23 (as claimed): lock scope -- the lock is not held while a payload is
\* being decoded: the Receiver holds it only once the payload is decoded.
LockNotHeldWhileDecoding == RxDecoding => lock # "rx"

\* An inbox operation is inside its locked region: the Receiver's append or
\* the pop of read_message.
InboxOperation == rx.pc = "qappend" \/ caller.pc = "rm_pop"

\* C24 (as claimed): distinct locks -- the inbox has a lock of its own, so
\* while an inbox operation is in its locked region the lock of the readings
\* is free, and a getter the client calls then is not delayed.
InboxLockDistinct ==
    /\ InboxOperation => lock = "free"
    /\ (rx.pc = "qappend" /\ MayCall) => CallerMayLock

\* C25 (as claimed): connected with the store update -- in the step that sets
\* connected, a decoded frame is stored.
ConnectedWithStore ==
    [][(~connected /\ connected')
         => \E s \in Streams(kind) : readings'[s] # EmptyMsg]_vars

\* C26 (as claimed): own frames only -- while the Receiver handles a frame
\* whose target is not this node's name, connected and the stored readings do
\* not change.
OwnFramesOnly ==
    [][(rx.frame # NoFrame /\ rx.frame.name # MyName)
         => (connected' = connected /\ readings' = readings)]_vars

\* C27: peer-mesh polling -- the Receiver polls the message subscription once
\* per primary frame: the peer messages taken (and so the entries ever
\* appended) never outnumber the primary frames received; a poll that finds
\* nothing leaves the inbox as it is and goes on to the loop test.
PeerPolling ==
    /\ [](peer_recvd <= delivered /\ Len(msg_queue) <= peer_recvd)
    /\ [][(rx.pc = "poll" /\ rx'.pc # "poll")
            => (rx'.pc \in {"loop", "qlock"} /\ msg_queue' = msg_queue)]_vars
    /\ [][(rx.pc = "poll" /\ rx'.pc = "loop") => peer_recvd' = peer_recvd]_vars

\* C27 witness: two primary frames were received and after each of them one
\* peer message was appended.
PolledAfterEachFrame ==
    /\ delivered = 2
    /\ peer_recvd = 2
    /\ Len(msg_queue) = 2
    /\ rx.pc = "loop"

\* C28: shutdown liveness -- once the stop flag is set and the data source
\* still has a frame to deliver, the Receiver thread ends; stop() waiting in
\* its join then returns with the log file closed; and when the Receiver
\* waits in recv_multipart and no frame comes any more, stop() stays in its
\* join forever.
ShutdownLiveness ==
    /\ (stop /\ delivered < MaxFrames) ~> RxTerminated
    /\ (caller.pc = "stop_join" /\ delivered < MaxFrames)
          ~> (Finished("stop") /\ caller.res.kind = "done" /\ (log => logfile = "closed"))
    /\ []((caller.pc = "stop_join" /\ rx.pc = "recv" /\ delivered = MaxFrames)
            => [](caller.pc = "stop_join"))

\* C28 witness: the only call was stop(), it has returned, and the Receiver
\* left its loop after the last frame of the data source.
StoppedAfterLastFrame ==
    /\ calls = 1
    /\ Finished("stop")
    /\ caller.res.kind = "done"
    /\ rx.pc = "done"
    /\ delivered = MaxFrames

\* C29: handshake liveness -- once a frame has been delivered the constructor
\* returns; as long as none has been delivered it is in its wait, neither
\* returned nor failed.
HandshakeLiveness ==
    /\ (delivered > 0) ~> (caller.pc \notin {"ctor_wait", "settle"})
    /\ [](delivered = 0 => (caller.pc = "ctor_wait" /\ caller.res = NoResult))

\* C29 witness: the constructor of a Fish has returned after one frame and
\* the settle time.
ReturnedAfterOneFrame ==
    /\ kind = "Fish"
    /\ delivered = 1
    /\ caller.pc = "idle"
    /\ calls = 0

\* C30 (as claimed): stopped only on request -- whenever the Receiver thread
\* has ended, stop() has set the stop flag before; no frame ends the thread.
StoppedOnlyOnRequest == RxTerminated => stop

\* A step of an actuator call: the whole of a setter or standby call made by
\* the client, or one of the standby calls inside stop().
ActuatorStep ==
    \/ (calls' = calls + 1 /\ caller'.op \in ActuatorCalls)
    \/ (caller.pc \in {"stop_vib", "stop_light", "stop_dled"} /\ caller' # caller)

\* C31: setter frame -- an actuator call leaves the stored readings, the
\* connected flag, the inbox and the lock as they are; it sends at least one
\* frame, and without logging it writes no log record.
SetterFrame ==
    [][ActuatorStep
         => /\ readings' = readings
            /\ connected' = connected
            /\ msg_queue' = msg_queue
            /\ lock' = lock
            /\ stop' = stop
            /\ published' # << >>
            /\ logrows' >= logrows
            /\ ~log => logrows' = logrows]_vars

\* C31 witness: with a reading stored and logging enabled, set_light_rgb has
\* sent its frame and written its log record.
SetterAfterReading ==
    /\ kind = "Lure"
    /\ log
    /\ caller.pc = "idle"
    /\ caller.op = "set_light_rgb"
    /\ caller.res.kind = "done"
    /\ readings["ir"] # EmptyMsg
    /\ logrows > 0

\* The vocabulary: <<device, command, stream>> for each pair a node kind knows.
KnownPairs(k) ==
    IF k = "Lure"
    THEN { <<"IR", "Ranges", "ir">>, <<"Acc", "Measurements", "acc">> }
    ELSE { <<"Object", "Ranges", "object">>, <<"Base", "Enc", "enc">>,
           <<"Base", "GroundTruth", "pose">>, <<"Base", "VelRef", "velref">>,
           <<"Light", "Readings", "light">>, <<"Color", "ColorVal", "color">>,
           <<"Eye", "Left", "left_eye">>, <<"Eye", "Right", "right_eye">> }

\* C32: dispatch frame -- the stored message of a stream changes only while
\* the Receiver handles a frame whose pair belongs to that stream, and when
\* the decode of such a frame ends that stream holds the frame's payload.
DispatchFrame ==
    /\ [][\A s \in Streams(kind) :
             readings'[s] # readings[s]
                => /\ rx.pc \in {"acquire", "parse"}
                   /\ <<rx.frame.dev, rx.frame.cmd, s>> \in KnownPairs(kind)]_vars
    /\ [](\A t \in KnownPairs(kind) :
             (rx.pc = "parse" /\ rx.pos = Len(rx.frame.data)
                 /\ rx.frame.dev = t[1] /\ rx.frame.cmd = t[2])
                => readings[t[3]] = rx.frame.data)

\* C32 witness: a Fish has stored a Base/Enc and a Base/GroundTruth frame,
\* each in its own stream, and the velocity setpoints are still unset.
TwoBaseStreamsStored ==
    /\ kind = "Fish"
    /\ readings["enc"] = VelA
    /\ readings["pose"] = PoseA
    /\ readings["velref"] = EmptyMsg
    /\ rx.pc = "loop"

\* C33 (as claimed): activity log coverage -- log records are only appended;
\* without logging none is written; with logging and the log file open,
\* every actuator call appends a record, and so does every IR or Acc message
\* the Receiver has stored and gone on from.
LogCoverage ==
    [][/\ logrows' >= logrows
       /\ ~log => logrows' = logrows
       /\ (log /\ logfile = "open" /\ ActuatorStep) => logrows' > logrows
       /\ (log /\ rx.pc = "logging" /\ rx'.pc = "poll") => logrows' > logrows]_vars

\* C34 (as claimed): get_pixel -- called for one of the two eyes with an index
\* inside the stored image, get_pixel returns without an exception, and on
\* every exit it leaves the lock free.
GetPixelReturns ==
    [][(caller.pc = "flocked" /\ caller'.pc = "idle" /\ caller.op = "get_pixel")
         => /\ lock' = "free"
            /\ LET eye == IF caller.arg[1] = LEFT_EYE THEN readings["left_eye"]
                          ELSE readings["right_eye"]
               IN (/\ caller.arg[1] \in {LEFT_EYE, RIGHT_EYE}
                   /\ InRange(Rep(eye, "image"), caller.arg[2]))
                     => caller'.res.kind # "raised"]_vars

\* C35: one more frame -- with the stop flag set, the Receiver's loop test
\* leaves the loop, and the Receiver never enters recv_multipart; so after the
\* flag is set it completes at most the receive it was already in.
OneMoreFrame ==
    /\ [][(stop /\ rx.pc = "loop" /\ rx' # rx) => rx'.pc = "done"]_vars
    /\ [][(stop /\ rx'.pc = "recv") => rx.pc = "recv"]_vars

\* C35 witness: stop() waits in its join and the Receiver has just received
\* a frame with the flag already set.
FrameAfterFlag ==
    /\ stop
    /\ caller.pc = "stop_join"
    /\ rx.pc = "connect"
    /\ delivered = 2

\* C36 (as claimed): no pop from an empty inbox -- a read_message call that
\* has taken the lock and is about to pop finds an entry in the inbox,
\* whichever client thread makes the call.
NoPopFromEmpty ==
    /\ caller.pc = "rm_pop" => msg_queue # << >>
    /\ reader.pc = "rm_pop" => msg_queue # << >>

\* C37 (as claimed): exclusive log appends -- while the Receiver is at its
\* log appends for a stored reading, no log record is appended by the client
\* thread.
LogAppendsExclusive ==
    [][(log /\ rx.pc = "logging" /\ rx' = rx) => logrows' = logrows]_vars

\* C38 (as claimed): no append on a closed log -- no call ends with the
\* ValueError that a log write on the closed file raises.
NoAppendOnClosedLog ==
    ~(caller.res.kind = "raised" /\ caller.res.exc = "ValueError")

\* C39 (as claimed): message round trip -- a peer frame the Receiver appends
\* to the inbox is addressed to this node, and what read_message returns for
\* it has the sender and the text of the frame and, as its label, the
\* direction under which this node's table lists the sender.
MessageRoundTrip ==
    [][/\ (rx.pc = "qappend" /\ rx'.pc # "qappend")
            => /\ rx.msg.name = MyName
               /\ msg_queue' = Append(msg_queue, [sender |-> rx.msg.sender,
                                                  data |-> rx.msg.data])
       /\ InboxPop => caller'.res.msg.label = ExpectedLabel(caller'.res.msg.sender)]_vars

\* C40 (as claimed): Acc frames keep the loop running -- no exception ends
\* the Receiver thread, whatever the number of readings of an Acc frame.
AccKeepsLoopRunning == rx.pc # "crashed"

=============================================================================
